---------------------------- MODULE Spec2Model ----------------------------
(***************************************************************************)
(* A model of the SparseMatrix class (src/test.sh holds SparseMatrix.js    *)
(* from line 163 on) and of the sessions its callers run against it.       *)
(*                                                                         *)
(* Text is a sequence of one-character strings, so that splitting,         *)
(* trimming, integer parsing and formatting are modelled by what they do.  *)
(* A JavaScript object used as a map is a sequence of [key, value] records *)
(* in insertion order (the order for..in visits string keys in).           *)
(* Values stay within the integers a JavaScript number holds exactly       *)
(* (below 2^53 in magnitude), where +, - and * are integer arithmetic.     *)
(***************************************************************************)
EXTENDS Integers, Sequences, FiniteSets, TLC

(***************************************************************************)
(* Bounds of the model.                                                    *)
(***************************************************************************)
\* the largest dimension a caller passes to the constructor, and the largest
\* coordinate a caller passes to getElement / setElement
MaxDim == 2
\* the number of setElement, add, subtract and multiply calls a session makes
MaxCalls == 2
\* the number of entry lines of a matrix file a session reads
MaxEntryLines == 2
\* the number of data events stdin delivers to the command line
MaxChunks == 3

(***************************************************************************)
(* Characters and text.                                                    *)
(***************************************************************************)
DigitChars == <<"0", "1", "2", "3", "4", "5", "6", "7", "8", "9">>

IsDigit(ch) == \E d \in 1..10 : DigitChars[d] = ch

DigitValue(ch) == (CHOOSE d \in 1..10 : DigitChars[d] = ch) - 1

RECURSIVE NatToText(_)
NatToText(n) ==
    IF n < 10 THEN <<DigitChars[n + 1]>>
    ELSE NatToText(n \div 10) \o <<DigitChars[(n % 10) + 1]>>

\* a number inside a template literal: `${n}`
NumToText(n) == IF n < 0 THEN <<"-">> \o NatToText(-n) ELSE NatToText(n)

\* str.substring(from, to), 0-based, to exclusive; the two are swapped when
\* from > to
Substring(str, from, to) ==
    IF from > to THEN SubSeq(str, to + 1, from) ELSE SubSeq(str, from + 1, to)

StartsWith(str, prefix) ==
    /\ Len(str) >= Len(prefix)
    /\ SubSeq(str, 1, Len(prefix)) = prefix

EndsWith(str, suffix) ==
    /\ Len(str) >= Len(suffix)
    /\ SubSeq(str, Len(str) - Len(suffix) + 1, Len(str)) = suffix

\* str.indexOf(delimiter, from): 0-based index of the first occurrence at or
\* after from, -1 when there is none
RECURSIVE IndexOf(_, _, _)
IndexOf(str, delimiter, from) ==
    IF from + Len(delimiter) > Len(str) THEN -1
    ELSE IF SubSeq(str, from + 1, from + Len(delimiter)) = delimiter THEN from
    ELSE IndexOf(str, delimiter, from + 1)

RECURSIVE SplitFrom(_, _, _)
SplitFrom(str, delimiter, startIndex) ==
    LET endIndex == IndexOf(str, delimiter, startIndex)
    IN  IF endIndex = -1 THEN <<Substring(str, startIndex, Len(str))>>
        ELSE <<Substring(str, startIndex, endIndex)>>
             \o SplitFrom(str, delimiter, endIndex + Len(delimiter))

_splitString(str, delimiter) == SplitFrom(str, delimiter, 0)

\* the whitespace test without the carriage return
IsSpace_noCR(ch) == ch \in {" ", "\t", "\n"}

IsSpace(ch) == ch \in {" ", "\t", "\n", "\r"}

RECURSIVE TrimStart(_, _, _)
TrimStart(str, start, end) ==
    IF start <= end /\ IsSpace(str[start + 1]) THEN TrimStart(str, start + 1, end)
    ELSE start

RECURSIVE TrimEnd(_, _, _)
TrimEnd(str, start, end) ==
    IF end >= start /\ IsSpace(str[end + 1]) THEN TrimEnd(str, start, end - 1)
    ELSE end

_trim(str) ==
    LET start == TrimStart(str, 0, Len(str) - 1)
        end   == TrimEnd(str, start, Len(str) - 1)
    IN  IF start <= end THEN Substring(str, start, end + 1) ELSE <<>>

\* NaN is [nan |-> TRUE]; a number n is [nan |-> FALSE, val |-> n]
NaN == [nan |-> TRUE, val |-> 0]

Num(n) == [nan |-> FALSE, val |-> n]

RECURSIVE ParseDigits(_, _, _)
ParseDigits(str, i, result) ==
    IF i >= Len(str) THEN Num(result)
    ELSE IF ~IsDigit(str[i + 1]) THEN NaN
    ELSE ParseDigits(str, i + 1, result * 10 + DigitValue(str[i + 1]))

_parseInt(str) ==
    IF str = <<>> THEN NaN
    ELSE LET isNegative == str[1] = "-"
             r == ParseDigits(str, IF isNegative THEN 1 ELSE 0, 0)
         IN  IF r.nan THEN NaN
             ELSE IF isNegative THEN Num(-r.val) ELSE r


(***************************************************************************)
(* The elements object: a map from key text to value, in insertion order.  *)
(***************************************************************************)
\* this.elements[key] !== undefined
HasKey(elements, key) == \E i \in 1..Len(elements) : elements[i].key = key

\* this.elements[key], for a key that is present
ValueAt(elements, key) ==
    elements[CHOOSE i \in 1..Len(elements) : elements[i].key = key].value

\* this.elements[key] = value: an existing key keeps its place, a new one is
\* appended
PutKey(elements, key, value) ==
    IF HasKey(elements, key)
    THEN [i \in 1..Len(elements) |->
            IF elements[i].key = key THEN [key |-> key, value |-> value]
            ELSE elements[i]]
    ELSE Append(elements, [key |-> key, value |-> value])

\* delete this.elements[key]
DeleteKey(elements, key) == SelectSeq(elements, LAMBDA e : e.key # key)

(***************************************************************************)
(* The SparseMatrix object.                                                *)
(***************************************************************************)
\* new SparseMatrix(null, numRows, numCols)
NewMatrix(numRows, numCols) ==
    [rows |-> numRows, cols |-> numCols, elements |-> <<>>, elementCount |-> 0]

_createKey(row, col) == NumToText(row) \o <<",">> \o NumToText(col)

\* the bounds check with > for >=
OutOfBounds_offByOne(m, row, col) == row < 0 \/ row > m.rows \/ col < 0 \/ col > m.cols

OutOfBounds(m, row, col) == row < 0 \/ row >= m.rows \/ col < 0 \/ col >= m.cols

\* getElement looking up the key of (col, row)
getElement_transposed(m, row, col) ==
    IF OutOfBounds(m, row, col) THEN [err |-> "OutOfBounds", val |-> 0]
    ELSE LET key == _createKey(col, row)
         IN  [err |-> "none",
              val |-> IF HasKey(m.elements, key) THEN ValueAt(m.elements, key) ELSE 0]

\* the outcome of getElement: the error raised, or the value returned
getElement(m, row, col) ==
    IF OutOfBounds(m, row, col) THEN [err |-> "OutOfBounds", val |-> 0]
    ELSE LET key == _createKey(row, col)
         IN  [err |-> "none",
              val |-> IF HasKey(m.elements, key) THEN ValueAt(m.elements, key) ELSE 0]

\* setElement without the branch for 0: a 0 is stored like any other value
setElement_keepsZero(m, row, col, value) ==
    IF OutOfBounds(m, row, col) THEN [err |-> "OutOfBounds", m |-> m]
    ELSE LET key == _createKey(row, col)
         IN  [err |-> "none",
              m |-> [m EXCEPT !.elements = PutKey(@, key, value),
                              !.elementCount =
                                  IF HasKey(m.elements, key) THEN @ ELSE @ + 1]]

\* setElement counting every stored value, an overwrite included
setElement_countsOverwrite(m, row, col, value) ==
    IF OutOfBounds(m, row, col) THEN [err |-> "OutOfBounds", m |-> m]
    ELSE LET key == _createKey(row, col)
         IN  IF value = 0
             THEN IF HasKey(m.elements, key)
                  THEN [err |-> "none",
                        m |-> [m EXCEPT !.elements = DeleteKey(@, key),
                                        !.elementCount = @ - 1]]
                  ELSE [err |-> "none", m |-> m]
             ELSE [err |-> "none",
                   m |-> [m EXCEPT !.elements = PutKey(@, key, value),
                                   !.elementCount = @ + 1]]

\* setElement that, given 0, decrements the count and forgets the delete
setElement_noDelete(m, row, col, value) ==
    IF OutOfBounds(m, row, col) THEN [err |-> "OutOfBounds", m |-> m]
    ELSE LET key == _createKey(row, col)
         IN  IF value = 0
             THEN IF HasKey(m.elements, key)
                  THEN [err |-> "none", m |-> [m EXCEPT !.elementCount = @ - 1]]
                  ELSE [err |-> "none", m |-> m]
             ELSE [err |-> "none",
                   m |-> [m EXCEPT !.elements = PutKey(@, key, value),
                                   !.elementCount =
                                       IF HasKey(m.elements, key) THEN @ ELSE @ + 1]]

\* the outcome of setElement: the error raised, and the object afterwards
setElement(m, row, col, value) ==
    IF OutOfBounds(m, row, col) THEN [err |-> "OutOfBounds", m |-> m]
    ELSE LET key == _createKey(row, col)
         IN  IF value = 0
             THEN IF HasKey(m.elements, key)
                  THEN [err |-> "none",
                        m |-> [m EXCEPT !.elements = DeleteKey(@, key),
                                        !.elementCount = @ - 1]]
                  ELSE [err |-> "none", m |-> m]
             ELSE [err |-> "none",
                   m |-> [m EXCEPT !.elements = PutKey(@, key, value),
                                   !.elementCount =
                                       IF HasKey(m.elements, key) THEN @ ELSE @ + 1]]

\* the row and the column a key of elements names
KeyRow(key) == _parseInt(_splitString(key, <<",">>)[1]).val

KeyCol(key) == _parseInt(_splitString(key, <<",">>)[2]).val

(***************************************************************************)
(* Objects live in a heap of cells; a reference is a cell number.  A       *)
(* method that takes another matrix, or returns a new one, maps the heap   *)
(* to the heap it leaves: [err, heap, ret], ret the reference returned.    *)
(***************************************************************************)
Slots == {"matrix1", "matrix2", "result"}

\* one cell for each variable of the caller, and one for the object a call
\* builds while the variable it will be assigned to still holds the old one
Refs == 1..(Cardinality(Slots) + 1)

Free == [free |-> TRUE]

\* the cell `new` takes
Alloc(h) == CHOOSE r \in Refs : h[r] = Free /\ \A q \in Refs : q < r => h[q] # Free

\* h[r].setElement(row, col, value), as a step on the heap
SetAt(st, r, row, col, value) ==
    LET o == setElement(st.heap[r], row, col, value)
    IN  [err |-> o.err, heap |-> [st.heap EXCEPT ![r] = o.m]]

\* for (const key in src.elements) result.setElement(row, col, src.elements[key]),
\* from entry i on
RECURSIVE CopyInto(_, _, _, _)
CopyInto(st, result, src, i) ==
    IF st.err # "none" \/ i > Len(st.heap[src].elements) THEN st
    ELSE LET e == st.heap[src].elements[i]
         IN  CopyInto(SetAt(st, result, KeyRow(e.key), KeyCol(e.key), e.value),
                      result, src, i + 1)

\* the second loop of add and subtract storing the other matrix's value instead
\* of adding it to the current one
RECURSIVE AccumulateInto_overwrites(_, _, _, _, _)
AccumulateInto_overwrites(st, result, src, sign, i) ==
    IF st.err # "none" \/ i > Len(st.heap[src].elements) THEN st
    ELSE LET e == st.heap[src].elements[i]
         IN  AccumulateInto_overwrites(
                 SetAt(st, result, KeyRow(e.key), KeyCol(e.key), sign * e.value),
                 result, src, sign, i + 1)

\* for (const key in src.elements) { currentValue = result.getElement(row, col);
\* result.setElement(row, col, currentValue + sign * src.elements[key]) }
RECURSIVE AccumulateInto(_, _, _, _, _)
AccumulateInto(st, result, src, sign, i) ==
    IF st.err # "none" \/ i > Len(st.heap[src].elements) THEN st
    ELSE LET e == st.heap[src].elements[i]
             row == KeyRow(e.key)
             col == KeyCol(e.key)
             currentValue == getElement(st.heap[result], row, col)
         IN  IF currentValue.err # "none"
             THEN [err |-> currentValue.err, heap |-> st.heap]
             ELSE AccumulateInto(
                      SetAt(st, result, row, col, currentValue.val + sign * e.value),
                      result, src, sign, i + 1)

\* const result = new SparseMatrix(null, numRows, numCols)
Construct(h, numRows, numCols) ==
    [err |-> "none", heap |-> [h EXCEPT ![Alloc(h)] = NewMatrix(numRows, numCols)]]

\* add accumulating into this and returning it, no new matrix constructed
add_inPlace(h, this, matrix) ==
    IF h[this].rows # h[matrix].rows \/ h[this].cols # h[matrix].cols
    THEN [err |-> "DimensionMismatch", heap |-> h, ret |-> 0]
    ELSE LET st == AccumulateInto([err |-> "none", heap |-> h], this, matrix, 1, 1)
         IN  [err |-> st.err, heap |-> st.heap, ret |-> this]

\* this.add(matrix)
add(h, this, matrix) ==
    IF h[this].rows # h[matrix].rows \/ h[this].cols # h[matrix].cols
    THEN [err |-> "DimensionMismatch", heap |-> h, ret |-> 0]
    ELSE LET result == Alloc(h)
             st == AccumulateInto(
                       CopyInto(Construct(h, h[this].rows, h[this].cols),
                                result, this, 1),
                       result, matrix, 1, 1)
         IN  [err |-> st.err, heap |-> st.heap, ret |-> result]

\* subtract with the + of add left in place
subtract_asAdd(h, this, matrix) ==
    IF h[this].rows # h[matrix].rows \/ h[this].cols # h[matrix].cols
    THEN [err |-> "DimensionMismatch", heap |-> h, ret |-> 0]
    ELSE LET result == Alloc(h)
             st == AccumulateInto(
                       CopyInto(Construct(h, h[this].rows, h[this].cols),
                                result, this, 1),
                       result, matrix, 1, 1)
         IN  [err |-> st.err, heap |-> st.heap, ret |-> result]

\* this.subtract(matrix)
subtract(h, this, matrix) ==
    IF h[this].rows # h[matrix].rows \/ h[this].cols # h[matrix].cols
    THEN [err |-> "DimensionMismatch", heap |-> h, ret |-> 0]
    ELSE LET result == Alloc(h)
             st == AccumulateInto(
                       CopyInto(Construct(h, h[this].rows, h[this].cols),
                                result, this, 1),
                       result, matrix, -1, 1)
         IN  [err |-> st.err, heap |-> st.heap, ret |-> result]

\* the inner loop of multiply storing each product instead of adding it to the
\* current value
RECURSIVE MultiplyInner_overwrites(_, _, _, _, _)
MultiplyInner_overwrites(st, result, entryA, matrix, j) ==
    IF st.err # "none" \/ j > Len(st.heap[matrix].elements) THEN st
    ELSE LET entryB == st.heap[matrix].elements[j]
             product == entryA.value * entryB.value
         IN  IF KeyCol(entryA.key) = KeyRow(entryB.key) /\ product # 0
             THEN MultiplyInner_overwrites(
                      SetAt(st, result, KeyRow(entryA.key), KeyCol(entryB.key), product),
                      result, entryA, matrix, j + 1)
             ELSE MultiplyInner_overwrites(st, result, entryA, matrix, j + 1)

\* the inner loop of multiply: for (const keyB in matrix.elements), from entry j
RECURSIVE MultiplyInner(_, _, _, _, _)
MultiplyInner(st, result, entryA, matrix, j) ==
    IF st.err # "none" \/ j > Len(st.heap[matrix].elements) THEN st
    ELSE LET entryB == st.heap[matrix].elements[j]
             rowA == KeyRow(entryA.key)
             colA == KeyCol(entryA.key)
             rowB == KeyRow(entryB.key)
             colB == KeyCol(entryB.key)
             product == entryA.value * entryB.value
             currentValue == getElement(st.heap[result], rowA, colB)
         IN  IF colA = rowB /\ product # 0
             THEN IF currentValue.err # "none"
                  THEN [err |-> currentValue.err, heap |-> st.heap]
                  ELSE MultiplyInner(
                           SetAt(st, result, rowA, colB, currentValue.val + product),
                           result, entryA, matrix, j + 1)
             ELSE MultiplyInner(st, result, entryA, matrix, j + 1)

\* the outer loop of multiply: for (const keyA in this.elements), from entry i
RECURSIVE MultiplyOuter(_, _, _, _, _)
MultiplyOuter(st, result, this, matrix, i) ==
    IF st.err # "none" \/ i > Len(st.heap[this].elements) THEN st
    ELSE MultiplyOuter(
             MultiplyInner(st, result, st.heap[this].elements[i], matrix, 1),
             result, this, matrix, i + 1)

\* this.multiply(matrix)
multiply(h, this, matrix) ==
    IF h[this].cols # h[matrix].rows
    THEN [err |-> "DimensionMismatch", heap |-> h, ret |-> 0]
    ELSE LET result == Alloc(h)
             st == MultiplyOuter(Construct(h, h[this].rows, h[matrix].cols),
                                 result, this, matrix, 1)
         IN  [err |-> st.err, heap |-> st.heap, ret |-> result]

(***************************************************************************)
(* Reading a matrix from text, and writing it.                             *)
(***************************************************************************)
\* the outcome of _parseElementLine: ok is FALSE where the code returns null
NullElement == [ok |-> FALSE, row |-> 0, col |-> 0, value |-> 0]

_parseElementLine(line) ==
    IF ~StartsWith(line, <<"(">>) \/ ~EndsWith(line, <<")">>) THEN NullElement
    ELSE LET inner == Substring(line, 1, Len(line) - 1)
             parts == _splitString(inner, <<",">>)
         IN  IF Len(parts) # 3 THEN NullElement
             ELSE LET row   == _parseInt(_trim(parts[1]))
                      col   == _parseInt(_trim(parts[2]))
                      value == _parseInt(_trim(parts[3]))
                  IN  IF row.nan \/ col.nan \/ value.nan THEN NullElement
                      ELSE [ok |-> TRUE, row |-> row.val, col |-> col.val,
                            value |-> value.val]

\* the lines of data that are not blank, trimmed
RECURSIVE ValidLines(_, _)
ValidLines(lines, i) ==
    IF i > Len(lines) THEN <<>>
    ELSE LET trimmedLine == _trim(lines[i])
         IN  (IF trimmedLine # <<>> THEN <<trimmedLine>> ELSE <<>>)
             \o ValidLines(lines, i + 1)

Max(a, b) == IF a >= b THEN a ELSE b

\* first pass of loadFromFile over validLines[i..]: [ok, maxRow, maxCol,
\* validElements]; ok is FALSE at the first line that does not parse
RECURSIVE FirstPass(_, _, _)
FirstPass(validLines, i, acc) ==
    IF i > Len(validLines) THEN acc
    ELSE LET element == _parseElementLine(validLines[i])
         IN  IF ~element.ok THEN [acc EXCEPT !.ok = FALSE]
             ELSE FirstPass(validLines, i + 1,
                      [ok |-> TRUE,
                       maxRow |-> Max(acc.maxRow, element.row),
                       maxCol |-> Max(acc.maxCol, element.col),
                       validElements |-> Append(acc.validElements, element)])

\* the second pass without the test on the value: setElement for every element
RECURSIVE SecondPass_storesZero(_, _, _)
SecondPass_storesZero(res, validElements, i) ==
    IF res.err # "none" \/ i > Len(validElements) THEN res
    ELSE LET element == validElements[i]
         IN  SecondPass_storesZero(setElement(res.m, element.row, element.col,
                                              element.value),
                                   validElements, i + 1)

\* second pass of loadFromFile: setElement for every element whose value is not 0
RECURSIVE SecondPass(_, _, _)
SecondPass(res, validElements, i) ==
    IF res.err # "none" \/ i > Len(validElements) THEN res
    ELSE LET element == validElements[i]
         IN  SecondPass(IF element.value # 0
                        THEN setElement(res.m, element.row, element.col, element.value)
                        ELSE res,
                        validElements, i + 1)

\* the adjustment with > for >=: a coordinate equal to the declared dimension does
\* not grow the matrix
AdjustedDims_offByOne(rows, cols, maxRow, maxCol) ==
    IF maxRow > rows \/ maxCol > cols
    THEN [rows |-> maxRow + 1, cols |-> maxCol + 1]
    ELSE [rows |-> rows, cols |-> cols]

\* the dimensions after the adjustment that follows the first pass
AdjustedDims(rows, cols, maxRow, maxCol) ==
    IF maxRow >= rows \/ maxCol >= cols
    THEN [rows |-> maxRow + 1, cols |-> maxCol + 1]
    ELSE [rows |-> rows, cols |-> cols]

FormatError == [err |-> "FormatError", m |-> NewMatrix(0, 0)]

\* new SparseMatrix(path) on a file whose content is data: the error raised,
\* or the object constructed
loadFromFile(data) ==
    LET validLines == ValidLines(_splitString(data, <<"\n">>), 1)
    IN  IF Len(validLines) < 3 THEN FormatError
        ELSE IF ~StartsWith(validLines[1], <<"r", "o", "w", "s", "=">>) THEN FormatError
        ELSE IF ~StartsWith(validLines[2], <<"c", "o", "l", "s", "=">>) THEN FormatError
        ELSE LET rows == _parseInt(Substring(validLines[1], 5, Len(validLines[1])))
                 cols == _parseInt(Substring(validLines[2], 5, Len(validLines[2])))
             IN  IF rows.nan \/ cols.nan THEN FormatError
                 ELSE IF rows.val <= 0 \/ cols.val <= 0 THEN FormatError
                 ELSE LET pass == FirstPass(validLines, 3,
                                      [ok |-> TRUE, maxRow |-> 0, maxCol |-> 0,
                                       validElements |-> <<>>])
                          dims == AdjustedDims(rows.val, cols.val,
                                               pass.maxRow, pass.maxCol)
                      IN  IF ~pass.ok THEN FormatError
                          ELSE SecondPass(
                                   [err |-> "none", m |-> NewMatrix(dims.rows, dims.cols)],
                                   pass.validElements, 1)

\* the entries of elements as {row, col, value} objects, in the order of elements
Entries(elements) ==
    [i \in 1..Len(elements) |->
        [row |-> KeyRow(elements[i].key), col |-> KeyCol(elements[i].key),
         value |-> elements[i].value]]

\* the comparator without its tie-break on the column
CompareEntries_rowOnly(a, b) == a.row - b.row

\* the comparator toString sorts with
CompareEntries(a, b) == IF a.row # b.row THEN a.row - b.row ELSE a.col - b.col

\* entries.sort(compare): a stable sort
RECURSIVE InsertSorted(_, _)
InsertSorted(sorted, e) ==
    IF sorted = <<>> THEN <<e>>
    ELSE IF CompareEntries(e, Head(sorted)) < 0 THEN <<e>> \o sorted
    ELSE <<Head(sorted)>> \o InsertSorted(Tail(sorted), e)

RECURSIVE SortEntries(_)
SortEntries(entries) ==
    IF entries = <<>> THEN <<>>
    ELSE InsertSorted(SortEntries(SubSeq(entries, 1, Len(entries) - 1)),
                      entries[Len(entries)])

\* `(${entry.row}, ${entry.col}, ${entry.value})\n`
EntryText(entry) ==
    <<"(">> \o NumToText(entry.row) \o <<",", " ">> \o NumToText(entry.col)
    \o <<",", " ">> \o NumToText(entry.value) \o <<")", "\n">>

RECURSIVE EntriesText(_)
EntriesText(entries) ==
    IF entries = <<>> THEN <<>>
    ELSE EntryText(Head(entries)) \o EntriesText(Tail(entries))

\* this.toString()
toString(m) ==
    <<"r", "o", "w", "s", "=">> \o NumToText(m.rows) \o <<"\n">>
    \o <<"c", "o", "l", "s", "=">> \o NumToText(m.cols) \o <<"\n">>
    \o EntriesText(SortEntries(Entries(m.elements)))

(***************************************************************************)
(* Matrix files.                                                           *)
(***************************************************************************)
RowsLine(n) == <<"r", "o", "w", "s", "=">> \o NumToText(n)

ColsLine(n) == <<"c", "o", "l", "s", "=">> \o NumToText(n)

\* the line "(row, col, value)"
EntryLine(row, col, value) ==
    <<"(">> \o NumToText(row) \o <<",", " ">> \o NumToText(col)
    \o <<",", " ">> \o NumToText(value) \o <<")">>

\* the file made of the given lines, one "\n" after each
RECURSIVE FileOf(_)
FileOf(lines) ==
    IF lines = <<>> THEN <<>>
    ELSE Head(lines) \o <<"\n">> \o FileOf(Tail(lines))

\* the small matrices the callers load
SampleFiles ==
    { FileOf(<<RowsLine(2), ColsLine(2), EntryLine(0, 0, 1), EntryLine(0, 1, 2),
               EntryLine(1, 0, 3), EntryLine(1, 1, 4)>>),
      FileOf(<<RowsLine(2), ColsLine(2), EntryLine(1, 1, 1), EntryLine(0, 0, 1)>>),
      FileOf(<<RowsLine(2), ColsLine(2), EntryLine(0, 1, -2), EntryLine(1, 0, 3)>>),
      FileOf(<<RowsLine(1), ColsLine(2), EntryLine(0, 0, 1), EntryLine(0, 1, 1)>>),
      FileOf(<<RowsLine(2), ColsLine(1), EntryLine(0, 0, 1), EntryLine(1, 0, -1)>>) }

\* the dimensions the header lines declare
DeclArgs == {1, 2, 12}

\* the entry lines of the matrix files
EntryLines ==
    { EntryLine(0, 0, 0), EntryLine(0, 0, 1), EntryLine(0, 1, -1), EntryLine(1, 0, 12),
      EntryLine(1, 1, 0), EntryLine(2, 0, 7) }

\* the matrix files: two header lines, then entry lines
MatrixFiles ==
    { FileOf(<<RowsLine(rows), ColsLine(cols)>> \o entries) :
        rows \in DeclArgs, cols \in DeclArgs,
        entries \in UNION { [1..n -> EntryLines] : n \in 1..MaxEntryLines } }

(***************************************************************************)
(* A session: the variables of a caller, the objects they refer to, and    *)
(* the calls the caller makes.                                             *)
(***************************************************************************)
VARIABLES
    heap,   \* the cells: a SparseMatrix object, or Free
    ref,    \* for each variable of the caller, the cell it refers to, or 0
    file,   \* the file saveToFile wrote last
    last,   \* the last call: its arguments and its outcome
    ncalls, \* the number of setElement, add, subtract and multiply calls made
    cli     \* the command line of index.js: main, its CustomReadLine and stdin

vars == <<heap, ref, file, last, ncalls, cli>>

\* the arguments callers pass
DimArgs == 0..MaxDim

IndexArgs == -1..MaxDim

ValueArgs == {-1, 0, 1}

Defined == {s \in Slots : ref[s] # 0}

\* the object a variable refers to
Obj(s) == heap[ref[s]]

\* the heap once the cells no variable refers to are reclaimed
Collect(h, rf) == [r \in Refs |-> IF \E s \in Slots : rf[s] = r THEN h[r] ELSE Free]

NoFile == [exists |-> FALSE, text |-> <<>>, of |-> "none"]

NoCall == [op |-> "none", a |-> "none", b |-> "none", row |-> 0, col |-> 0,
           value |-> 0, data |-> <<>>, err |-> "none", ret |-> 0, undo |-> "none",
           lines |-> <<>>]

\* main has not been started: nothing asked, nothing received on stdin
NoCli == [pc |-> "none", prompt |-> 0, buffer |-> <<>>, events |-> 0,
          answers |-> <<>>, received |-> <<>>]

Init ==
    /\ heap = [r \in Refs |-> Free]
    /\ ref = [s \in Slots |-> 0]
    /\ file = NoFile
    /\ last = NoCall
    /\ ncalls = 0
    /\ cli = NoCli

\* const s = new SparseMatrix(null, numRows, numCols)
New(s, numRows, numCols) ==
    /\ ref[s] = 0
    /\ heap' = Construct(heap, numRows, numCols).heap
    /\ ref' = [ref EXCEPT ![s] = Alloc(heap)]
    /\ last' = [NoCall EXCEPT !.op = "new", !.a = s, !.row = numRows, !.col = numCols]
    /\ UNCHANGED <<file, ncalls, cli>>

\* const s = new SparseMatrix(path), the file at path holding data
Load(s, data) ==
    LET r == loadFromFile(data)
    IN  /\ ref[s] = 0
        /\ heap' = IF r.err = "none" THEN [heap EXCEPT ![Alloc(heap)] = r.m] ELSE heap
        /\ ref' = IF r.err = "none" THEN [ref EXCEPT ![s] = Alloc(heap)] ELSE ref
        /\ last' = [NoCall EXCEPT !.op = "load", !.a = s, !.data = data, !.err = r.err]
        /\ UNCHANGED <<file, ncalls, cli>>

\* s.getElement(row, col)
GetElement(s, row, col) ==
    LET r == getElement(Obj(s), row, col)
    IN  /\ ref[s] # 0
        /\ last' = [NoCall EXCEPT !.op = "get", !.a = s, !.row = row, !.col = col,
                                  !.err = r.err, !.ret = r.val]
        /\ UNCHANGED <<heap, ref, file, ncalls, cli>>

\* s.setElement(row, col, value)
SetElement(s, row, col, value) ==
    LET r == SetAt([err |-> "none", heap |-> heap], ref[s], row, col, value)
    IN  /\ ref[s] # 0
        /\ ncalls < MaxCalls
        /\ ncalls' = ncalls + 1
        /\ heap' = r.heap
        /\ file' = IF r.err = "none" /\ file.of = s THEN [file EXCEPT !.of = "none"]
                   ELSE file
        /\ last' = [NoCall EXCEPT !.op = "set", !.a = s, !.row = row, !.col = col,
                                  !.value = value, !.err = r.err]
        /\ UNCHANGED <<ref, cli>>

\* result = a.op(b), r the outcome of the call
Arith(op, a, b, r) ==
    /\ ncalls < MaxCalls
    /\ ncalls' = ncalls + 1
    /\ ref' = IF r.err = "none" THEN [ref EXCEPT !["result"] = r.ret] ELSE ref
    /\ heap' = Collect(r.heap, ref')
    /\ file' = IF r.err = "none" /\ file.of = "result" THEN [file EXCEPT !.of = "none"]
               ELSE file
    /\ last' = [NoCall EXCEPT !.op = op, !.a = a, !.b = b, !.err = r.err,
                   !.undo = IF /\ op = "subtract" /\ r.err = "none"
                               /\ a = "result" /\ b # "result"
                               /\ last.op = "add" /\ last.err = "none"
                               /\ last.a # "result" /\ last.b = b
                            THEN last.a ELSE "none"]
    /\ UNCHANGED cli

\* result = a.add(b)
Add(a, b) == Arith("add", a, b, add(heap, ref[a], ref[b]))

\* result = a.subtract(b)
Subtract(a, b) == Arith("subtract", a, b, subtract(heap, ref[a], ref[b]))

\* result = a.multiply(b)
Multiply(a, b) == Arith("multiply", a, b, multiply(heap, ref[a], ref[b]))

\* s.saveToFile(path)
SaveToFile(s) ==
    /\ ref[s] # 0
    /\ file' = [exists |-> TRUE, text |-> toString(Obj(s)), of |-> s]
    /\ last' = [NoCall EXCEPT !.op = "save", !.a = s]
    /\ UNCHANGED <<heap, ref, ncalls, cli>>

\* const s = new SparseMatrix(path), path the file saveToFile wrote
LoadSaved(s) ==
    /\ file.exists
    /\ Load(s, file.text)

Operands == {"matrix1", "matrix2"}

\* the edits a caller makes to the matrices it combines
Edits == { [row |-> 0, col |-> 0, value |-> 0], [row |-> 0, col |-> 0, value |-> 1],
           [row |-> 0, col |-> 1, value |-> -1] }

(***************************************************************************)
(* Spec: a session like those of index.js and autorun.js: two matrices are *)
(* constructed, combined into result, and result is combined and edited.   *)
(***************************************************************************)
Next ==
    \/ \E s \in Operands : New(s, MaxDim, MaxDim)
    \/ \E s \in Operands, data \in SampleFiles : Load(s, data)
    \/ \E s \in Defined, e \in Edits : SetElement(s, e.row, e.col, e.value)
    \/ \E a \in Defined, b \in Defined \cap Operands : Add(a, b)
    \/ \E a \in Defined, b \in Defined \cap Operands : Subtract(a, b)
    \/ \E a \in Defined, b \in Defined \cap Operands : Multiply(a, b)

Spec == Init /\ [][Next]_vars

(***************************************************************************)
(* SpecAccess: a session that constructs one matrix and reads and writes   *)
(* its elements.                                                           *)
(***************************************************************************)
NextAccess ==
    \/ \E numRows \in DimArgs, numCols \in DimArgs : New("matrix1", numRows, numCols)
    \/ \E data \in SampleFiles : Load("matrix1", data)
    \/ \E row \in IndexArgs, col \in IndexArgs : GetElement("matrix1", row, col)
    \/ \E row \in IndexArgs, col \in IndexArgs, value \in ValueArgs :
           SetElement("matrix1", row, col, value)

SpecAccess == Init /\ [][NextAccess]_vars

(***************************************************************************)
(* SpecCodec: a session that loads a matrix file, saves the matrix and     *)
(* loads what it saved.                                                    *)
(***************************************************************************)
NextCodec ==
    \/ \E data \in MatrixFiles : Load("matrix1", data)
    \/ SaveToFile("matrix1")
    \/ LoadSaved("matrix2")

SpecCodec == Init /\ [][NextCodec]_vars

(***************************************************************************)
(* What the properties below speak of.                                     *)
(***************************************************************************)
\* the objects of the heap
Live == {r \in Refs : heap[r] # Free}

\* the keys elements holds
KeySet(elements) == {elements[i].key : i \in 1..Len(elements)}

\* the value of m at a coordinate: the one elements stores under its key, 0 when
\* it stores none
At(m, row, col) ==
    IF HasKey(m.elements, _createKey(row, col))
    THEN ValueAt(m.elements, _createKey(row, col))
    ELSE 0

\* the in-bounds coordinates of a rows x cols matrix
Cells(rows, cols) == (0..(rows - 1)) \X (0..(cols - 1))

\* every key of m names an in-bounds coordinate, once
WellKeyed(m) ==
    /\ \A i \in 1..Len(m.elements) :
           ~OutOfBounds(m, KeyRow(m.elements[i].key), KeyCol(m.elements[i].key))
    /\ Cardinality(KeySet(m.elements)) = Len(m.elements)

\* m and n have the same dimensions, stored coordinates, values and elementCount
SameMatrix(m, n) ==
    /\ m.rows = n.rows
    /\ m.cols = n.cols
    /\ m.elementCount = n.elementCount
    /\ KeySet(m.elements) = KeySet(n.elements)
    /\ \A k \in KeySet(m.elements) : ValueAt(m.elements, k) = ValueAt(n.elements, k)

ArithOps == {"add", "subtract", "multiply"}

(***************************************************************************)
(* C1: no object ever stores the value 0: a coordinate whose value is 0 is *)
(* absent from elements.                                                   *)
(***************************************************************************)
C1_Sparsity ==
    \A r \in Live : \A i \in 1..Len(heap[r].elements) : heap[r].elements[i].value # 0

\* a matrix with entries was subtracted from itself and every entry cancelled
C1_Witness ==
    /\ last.op = "subtract"
    /\ last.err = "none"
    /\ last.a = last.b
    /\ Obj(last.a).elementCount > 1
    /\ Obj("result").elements = <<>>

(***************************************************************************)
(* C2: elementCount of every object is the number of keys elements holds,  *)
(* after setElement calls in and out of bounds, after loading and after    *)
(* arithmetic.                                                             *)
(***************************************************************************)
C2_ElementCount ==
    \A r \in Live :
        /\ heap[r].elementCount = Cardinality(KeySet(heap[r].elements))
        /\ heap[r].elementCount = Len(heap[r].elements)

\* setElement overwrote an entry of a loaded matrix that is full
C2_Witness ==
    /\ last.op = "set"
    /\ last.err = "none"
    /\ last.value = -1
    /\ Obj(last.a).elementCount = 4
    /\ At(Obj(last.a), 0, 1) = -1

(***************************************************************************)
(* C3: after setElement(r, c, v) in bounds getElement(r, c) returns v (0   *)
(* when v is 0); rows, cols and the value at every other coordinate are    *)
(* unchanged; getElement changes nothing.                                  *)
(***************************************************************************)
C3_SetThenGet ==
    [][ /\ (last'.op = "set" /\ last'.err = "none") =>
              LET before == Obj(last'.a)
                  after  == heap'[ref'[last'.a]]
              IN  /\ getElement(after, last'.row, last'.col)
                         = [err |-> "none", val |-> last'.value]
                  /\ after.rows = before.rows
                  /\ after.cols = before.cols
                  /\ \A c \in Cells(before.rows, before.cols) :
                         c # <<last'.row, last'.col>>
                             => At(after, c[1], c[2]) = At(before, c[1], c[2])
        /\ last'.op = "get" => (heap' = heap /\ ref' = ref /\ file' = file)
      ]_vars

\* setElement has stored a value in a matrix that holds other entries
C3_Witness ==
    /\ last.op = "set"
    /\ last.err = "none"
    /\ last.value # 0
    /\ At(Obj(last.a), last.row, last.col) = last.value
    /\ Obj(last.a).elementCount > 2

(***************************************************************************)
(* C4: getElement and setElement raise the out-of-bounds error exactly     *)
(* when row < 0, row >= rows, col < 0 or col >= cols, and succeed          *)
(* otherwise; a setElement that raises changes nothing of the object.      *)
(***************************************************************************)
C4_BoundsCheck ==
    [][ last'.op \in {"get", "set"} =>
            LET before == Obj(last'.a)
                outside == \/ last'.row < 0 \/ last'.row >= before.rows
                           \/ last'.col < 0 \/ last'.col >= before.cols
            IN  /\ last'.err = IF outside THEN "OutOfBounds" ELSE "none"
                /\ (last'.op = "set" /\ outside) => heap'[ref'[last'.a]] = before
      ]_vars

\* getElement(2, 0) on a 2 x 2 matrix has raised
C4_Witness ==
    /\ last.op = "get"
    /\ last.row = 2
    /\ last.col = 0
    /\ Obj(last.a).rows = 2
    /\ Obj(last.a).cols = 2
    /\ last.err = "OutOfBounds"

\* the object result refers to after a call that returned
Returned == heap'[ref'["result"]]

\* R is rows x cols, holds f[c] at every coordinate c, stores no coordinate where
\* f is 0 and counts the others
Holds(R, rows, cols, f) ==
    /\ R.rows = rows
    /\ R.cols = cols
    /\ WellKeyed(R)
    /\ \A c \in Cells(rows, cols) :
           /\ At(R, c[1], c[2]) = f[c]
           /\ f[c] = 0 => ~HasKey(R.elements, _createKey(c[1], c[2]))
    /\ R.elementCount = Cardinality({c \in Cells(rows, cols) : f[c] # 0})

(***************************************************************************)
(* C5: A.add(B) raises the dimension mismatch exactly when the dimensions  *)
(* differ; otherwise the matrix returned has A's dimensions, holds         *)
(* A(i,j) + B(i,j) at every coordinate, stores no coordinate whose sum is  *)
(* 0, and its elementCount is the number of non-zero sums.                 *)
(***************************************************************************)
C5_Addition ==
    [][ last'.op = "add" =>
            LET A == Obj(last'.a)
                B == Obj(last'.b)
                mismatch == A.rows # B.rows \/ A.cols # B.cols
                Sum == [c \in Cells(A.rows, A.cols) |-> At(A, c[1], c[2]) + At(B, c[1], c[2])]
            IN  /\ last'.err = IF mismatch THEN "DimensionMismatch" ELSE "none"
                /\ ~mismatch => Holds(Returned, A.rows, A.cols, Sum)
      ]_vars

\* an addition of two different matrices in which a coordinate cancelled and
\* another did not
C5_Witness ==
    /\ last.op = "add"
    /\ last.err = "none"
    /\ last.a \in Operands
    /\ last.b \in Operands
    /\ \E c \in Cells(Obj("result").rows, Obj("result").cols) :
           /\ At(Obj(last.a), c[1], c[2]) # 0
           /\ At(Obj("result"), c[1], c[2]) = 0
    /\ Obj("result").elementCount > 0

(***************************************************************************)
(* C6: A.subtract(B) raises the dimension mismatch exactly when the        *)
(* dimensions differ; otherwise the matrix returned has A's dimensions and *)
(* holds A(i,j) - B(i,j) at every coordinate: the negated value where only *)
(* B has an entry, nothing where the two cancel.                           *)
(***************************************************************************)
C6_Subtraction ==
    [][ last'.op = "subtract" =>
            LET A == Obj(last'.a)
                B == Obj(last'.b)
                mismatch == A.rows # B.rows \/ A.cols # B.cols
                Difference ==
                    [c \in Cells(A.rows, A.cols) |-> At(A, c[1], c[2]) - At(B, c[1], c[2])]
            IN  /\ last'.err = IF mismatch THEN "DimensionMismatch" ELSE "none"
                /\ ~mismatch => Holds(Returned, A.rows, A.cols, Difference)
      ]_vars

\* a subtraction in which one coordinate is present only in B and another
\* cancelled
C6_Witness ==
    /\ last.op = "subtract"
    /\ last.err = "none"
    /\ last.a \in Operands
    /\ last.b \in Operands
    /\ \E c \in Cells(Obj("result").rows, Obj("result").cols) :
           /\ At(Obj(last.a), c[1], c[2]) = 0
           /\ At(Obj(last.b), c[1], c[2]) # 0
           /\ At(Obj("result"), c[1], c[2]) = -At(Obj(last.b), c[1], c[2])
    /\ \E c \in Cells(Obj("result").rows, Obj("result").cols) :
           /\ At(Obj(last.a), c[1], c[2]) # 0
           /\ At(Obj("result"), c[1], c[2]) = 0

\* the sum over k < n of A(i, k) * B(k, j)
RECURSIVE DotProduct(_, _, _, _, _)
DotProduct(A, B, i, j, n) ==
    IF n = 0 THEN 0
    ELSE DotProduct(A, B, i, j, n - 1) + At(A, i, n - 1) * At(B, n - 1, j)

(***************************************************************************)
(* C7: A.multiply(B) raises the dimension mismatch exactly when            *)
(* A.cols # B.rows; otherwise the matrix returned is A.rows x B.cols and   *)
(* holds the sum over k of A(i,k) * B(k,j) at every coordinate, stores no  *)
(* coordinate whose sum is 0, and has elementCount 0 when an operand has   *)
(* no entry.                                                               *)
(***************************************************************************)
C7_Multiplication ==
    [][ last'.op = "multiply" =>
            LET A == Obj(last'.a)
                B == Obj(last'.b)
                mismatch == A.cols # B.rows
                Product ==
                    [c \in Cells(A.rows, B.cols) |-> DotProduct(A, B, c[1], c[2], A.cols)]
            IN  /\ last'.err = IF mismatch THEN "DimensionMismatch" ELSE "none"
                /\ ~mismatch =>
                       /\ Holds(Returned, A.rows, B.cols, Product)
                       /\ (A.elementCount = 0 \/ B.elementCount = 0)
                              => Returned.elementCount = 0
      ]_vars

\* a product in which two non-zero terms of one coordinate cancelled
C7_Witness ==
    /\ last.op = "multiply"
    /\ last.err = "none"
    /\ last.a \in Operands
    /\ last.b \in Operands
    /\ \E c \in Cells(Obj("result").rows, Obj("result").cols) :
           /\ At(Obj("result"), c[1], c[2]) = 0
           /\ \E k \in 0..(Obj(last.a).cols - 1) :
                  At(Obj(last.a), c[1], k) * At(Obj(last.b), k, c[2]) # 0

\* the outcome of the call op on the cells this and matrix
Outcome(op, this, matrix) ==
    IF op = "add" THEN add(heap, this, matrix)
    ELSE IF op = "subtract" THEN subtract(heap, this, matrix)
    ELSE multiply(heap, this, matrix)

(***************************************************************************)
(* C8: add, subtract and multiply change neither operand, whether they     *)
(* return or raise, and when both operands are the same object; the        *)
(* matrix returned is a new object, and a setElement on one object changes *)
(* no other.                                                               *)
(***************************************************************************)
C8_Purity ==
    [][ /\ last'.op \in ArithOps =>
              LET this == ref[last'.a]
                  matrix == ref[last'.b]
                  r == Outcome(last'.op, this, matrix)
              IN  /\ last'.a = "result" =>
                         (r.heap[this] = heap[this] /\ r.heap[matrix] = heap[matrix])
                  /\ \A s \in Operands :
                         /\ ref'[s] = ref[s]
                         /\ ref[s] # 0 => heap'[ref[s]] = heap[ref[s]]
                  /\ last'.err = "none" =>
                         /\ heap[ref'["result"]] = Free
                         /\ \A s \in Slots : ref[s] # ref'["result"]
                  /\ last'.err # "none" => (heap' = heap /\ ref' = ref)
        /\ last'.op = "set" =>
              \A s \in Slots :
                  (ref[s] # 0 /\ s # last'.a) => heap'[ref'[s]] = heap[ref[s]]
      ]_vars

\* result, returned by a call on one object as both operands, was edited and the
\* operand was not
C8_Witness ==
    /\ last.op = "set"
    /\ last.err = "none"
    /\ last.a = "result"
    /\ last.value # 0
    /\ ref["matrix2"] = 0
    /\ At(Obj("result"), last.row, last.col) = last.value
    /\ At(Obj("matrix1"), last.row, last.col) # last.value

(***************************************************************************)
(* C9: for A and B of the same dimensions, A.add(B).subtract(B) has the    *)
(* dimensions, the stored coordinates, the values and the elementCount of  *)
(* A.                                                                      *)
(***************************************************************************)
C9_AddSubtractInverse ==
    last.undo # "none" => SameMatrix(Obj("result"), Obj(last.undo))

\* B was added to a different matrix A and subtracted again, a coordinate of A
\* having cancelled in between
C9_Witness ==
    /\ last.undo # "none"
    /\ last.undo # last.b
    /\ \E c \in Cells(Obj(last.b).rows, Obj(last.b).cols) :
           /\ At(Obj(last.undo), c[1], c[2]) # 0
           /\ At(Obj(last.undo), c[1], c[2]) + At(Obj(last.b), c[1], c[2]) = 0

(***************************************************************************)
(* C10: for every document that loads, loading the toString() of the       *)
(* matrix loaded succeeds and gives a matrix of the same rows, the same    *)
(* cols and the same non-zero entries; documents whose entry lines all     *)
(* carry 0 and documents declaring more than their largest coordinate      *)
(* included.                                                               *)
(***************************************************************************)
C10_RoundTrip ==
    (last.op = "load" /\ last.a = "matrix2" /\ file.exists /\ file.of = "matrix1")
        => /\ last.err = "none"
           /\ SameMatrix(Obj("matrix2"), Obj("matrix1"))

\* (row, col) lexicographic order on coordinates
Before(c, d) == c[1] < d[1] \/ (c[1] = d[1] /\ c[2] < d[2])

\* the lines of the coordinates in cells, the least coordinate first
RECURSIVE CellsText(_, _)
CellsText(m, cells) ==
    IF cells = {} THEN <<>>
    ELSE LET least == CHOOSE c \in cells : \A d \in cells \ {c} : Before(c, d)
         IN  EntryLine(least[1], least[2], At(m, least[1], least[2])) \o <<"\n">>
             \o CellsText(m, cells \ {least})

\* the two header lines of m, then one line for each stored coordinate in
\* ascending (row, col) order
ExpectedText(m) ==
    RowsLine(m.rows) \o <<"\n">> \o ColsLine(m.cols) \o <<"\n">>
    \o CellsText(m, {c \in Cells(m.rows, m.cols) :
                        HasKey(m.elements, _createKey(c[1], c[2]))})

(***************************************************************************)
(* C11: toString() is the two header lines with rows and cols, then one    *)
(* line for each stored entry in strictly ascending (row, col) order; two  *)
(* matrices of equal dimensions and entries give the same text, whatever   *)
(* the order their entries were stored in.                                 *)
(***************************************************************************)
C11_SerializationOrder ==
    /\ \A r \in Live : WellKeyed(heap[r]) /\ toString(heap[r]) = ExpectedText(heap[r])
    /\ \A r1, r2 \in Live :
           SameMatrix(heap[r1], heap[r2]) => toString(heap[r1]) = toString(heap[r2])
    /\ (file.exists /\ ref[file.of] # 0) => file.text = ExpectedText(Obj(file.of))

\* a matrix whose entries were stored out of order was saved and loaded again:
\* two equal matrices that store their entries in different orders
C11_Witness ==
    /\ file.exists
    /\ file.of = "matrix1"
    /\ ref["matrix2"] # 0
    /\ SameMatrix(Obj("matrix1"), Obj("matrix2"))
    /\ Obj("matrix1").elements # Obj("matrix2").elements
    /\ Obj("matrix1").elementCount > 1
    /\ \E i, j \in 1..Len(Obj("matrix1").elements) :
           /\ i < j
           /\ KeyRow(Obj("matrix1").elements[i].key) = KeyRow(Obj("matrix1").elements[j].key)
           /\ KeyCol(Obj("matrix1").elements[i].key) > KeyCol(Obj("matrix1").elements[j].key)

(***************************************************************************)
(* Documents: the texts a caller hands to the constructor, well-formed and *)
(* not.                                                                    *)
(***************************************************************************)
\* the {row, col, value} of the well-formed entry lines: repeated, zero-valued,
\* negative and beyond the declared dimensions
EntryArgs ==
    { [row |-> 0, col |-> 0, value |-> 1], [row |-> 0, col |-> 0, value |-> 2],
      [row |-> 0, col |-> 0, value |-> 0], [row |-> 1, col |-> 1, value |-> -3],
      [row |-> 5, col |-> 0, value |-> 7], [row |-> 0, col |-> 2, value |-> 4],
      [row |-> 3, col |-> 0, value |-> 0], [row |-> -1, col |-> 0, value |-> 5],
      [row |-> 0, col |-> -1, value |-> 0] }

\* the dimensions the well-formed header lines declare
HeaderArgs == {1, 2}

\* entry lines that do not match (<row>, <col>, <value>)
MalformedLines ==
    { <<"(", "1", ",", "1", ",", "x", ")">>,
      <<"(", "1", ",", " ", "1", ")">>,
      <<"(", "1", ",", "1", ",", "1", ",", "1", ")">>,
      <<"1", ",", " ", "1", ",", " ", "1">>,
      <<"(", "1", ",", " ", "1", ",", " ", "1">>,
      <<"(", "1", ",", "1", ",", "1", ")", " ", "x">>,
      <<"(", "1", ",", ",", "1", ")">>,
      <<"(", "1", ",", "1", ",", "1", " ", "2", ")">>,
      <<"(", ")">> }

\* first lines that are not rows=<positive integer>
BadRowsLines ==
    { <<"r", "o", "w", "s", "=", "0">>,
      <<"r", "o", "w", "s", "=", "-", "1">>,
      <<"r", "o", "w", "s", "=">>,
      <<"r", "o", "w", "s", "=", "x">>,
      <<"r", "o", "w", "s", "=", "2", "x">>,
      <<"R", "o", "w", "s", "=", "2">>,
      <<"r", "o", "w", "s", ":", "2">>,
      <<"c", "o", "l", "s", "=", "2">>,
      <<"2">> }

\* second lines that are not cols=<positive integer>
BadColsLines ==
    { <<"c", "o", "l", "s", "=", "0">>,
      <<"c", "o", "l", "s", "=", "-", "2">>,
      <<"c", "o", "l", "s", "=">>,
      <<"c", "o", "l", "s", "=", "y">>,
      <<"c", "o", "l", "s", "=", "1", ".", "5">>,
      <<"C", "O", "L", "S", "=", "2">>,
      <<"r", "o", "w", "s", "=", "2">>,
      <<"(", "0", ",", " ", "0", ",", " ", "1", ")">> }

\* the line of a well-formed entry
LineOf(e) == EntryLine(e.row, e.col, e.value)

\* the sequences of one to MaxEntryLines well-formed entry lines
EntryLineSeqs ==
    UNION { [1..n -> {LineOf(e) : e \in EntryArgs}] : n \in 1..MaxEntryLines }

\* a well-formed header and well-formed entry lines
GoodDocs ==
    { <<RowsLine(rows), ColsLine(cols)>> \o entries :
        rows \in HeaderArgs, cols \in HeaderArgs, entries \in EntryLineSeqs }

\* a well-formed header and a malformed entry line, alone, after or before
\* well-formed ones
BadEntryDocs ==
    { <<RowsLine(2), ColsLine(2)>> \o entries :
        entries \in UNION { { <<m>>, <<LineOf(e), m>>, <<m, LineOf(e)>> } :
                              m \in MalformedLines,
                              e \in { [row |-> 0, col |-> 0, value |-> 1],
                                      [row |-> -1, col |-> 0, value |-> 5] } } }

\* the entry lines that follow a header that is not well-formed
AfterBadHeader ==
    { <<EntryLine(0, 0, 1)>>, <<EntryLine(-1, 0, 5)>>,
      <<EntryLine(0, 0, 1), <<"(", "1", ",", "1", ",", "x", ")">> >> }

\* a first or a second line that is not well-formed
BadHeaderDocs ==
    { <<r, ColsLine(2)>> \o entries : r \in BadRowsLines, entries \in AfterBadHeader }
    \cup { <<RowsLine(2), c>> \o entries : c \in BadColsLines, entries \in AfterBadHeader }

\* fewer than three lines
ShortDocs ==
    { <<>>, <<RowsLine(2)>>, <<RowsLine(2), ColsLine(2)>>, <<EntryLine(0, 0, 1)>>,
      <<ColsLine(2), EntryLine(0, 0, 1)>>, <<RowsLine(2), ColsLine(2), <<" ", "\t">> >> }

\* the tokens read where an integer is expected
Tokens ==
    { <<>>, <<"-">>, <<"+", "1">>, <<"-", "-", "1">>, <<"1", "-">>, <<"a">>,
      <<"1", "a">>, <<"1", " ", "2">>, <<"0">>, <<"7">>, <<"1", "2">>,
      <<"-", "1", "2">>, <<"-", "0">>, <<"0", "0", "7">> }

\* the entry line whose value is the token
TokenLine(tok) == <<"(", "0", ",", " ", "0", ",", " ">> \o tok \o <<")">>

\* a well-formed header and one entry line whose value is a token
TokenDocs == { <<RowsLine(2), ColsLine(2), TokenLine(tok)>> : tok \in Tokens }

\* the documents, as lines
Documents == GoodDocs \cup BadEntryDocs \cup BadHeaderDocs \cup ShortDocs \cup TokenDocs

\* the lines a blank-line edit inserts
BlankLines == { <<>>, <<" ">>, <<"\t", "\r", " ">> }

\* lines with line b inserted after the first pos of them
InsertLine(lines, pos, b) ==
    SubSeq(lines, 1, pos) \o <<b>> \o SubSeq(lines, pos + 1, Len(lines))

\* the ways of reordering n lines
Reorderings(n) == {p \in [1..n -> 1..n] : \A i, j \in 1..n : i # j => p[i] # p[j]}

\* lines with the ones after the two header lines reordered by p
Reordered(lines, p) ==
    SubSeq(lines, 1, 2) \o [i \in 1..(Len(lines) - 2) |-> lines[2 + p[i]]]

\* const s = new SparseMatrix(path), the file at path holding the lines
LoadLines(s, lines) ==
    \E data \in {FileOf(lines)} :
        LET r == loadFromFile(data)
        IN  /\ ref[s] = 0
            /\ heap' = IF r.err = "none" THEN [heap EXCEPT ![Alloc(heap)] = r.m] ELSE heap
            /\ ref' = IF r.err = "none" THEN [ref EXCEPT ![s] = Alloc(heap)] ELSE ref
            /\ last' = [NoCall EXCEPT !.op = "load", !.a = s, !.data = data,
                                      !.lines = lines, !.err = r.err]
            /\ UNCHANGED <<file, ncalls, cli>>

\* lines with the ones after the two header lines in every order
Reorders(lines) == {Reordered(lines, p) : p \in Reorderings(Len(lines) - 2)}

\* lines with one blank line inserted, at every position
BlankEdits(lines) ==
    {InsertLine(lines, pos, b) : pos \in 0..Len(lines), b \in BlankLines}

\* what a caller constructs next: matrix1 from a document, then matrix2 from the
\* same document with a blank line inserted or, if it gave a matrix, with its
\* entry lines reordered
NextDocuments ==
    IF last.op = "none" THEN [s : {"matrix1"}, lines : Documents]
    ELSE IF last.op = "load" /\ last.a = "matrix1"
    THEN [s : {"matrix2"},
          lines : BlankEdits(last.lines)
                  \cup (IF last.err = "none" THEN Reorders(last.lines) ELSE {})]
    ELSE {}

(***************************************************************************)
(* The session of a caller that constructs a matrix from a document, then  *)
(* a second one from the same document with its entry lines reordered or a *)
(* blank line inserted.                                                    *)
(***************************************************************************)
NextParse == \E d \in NextDocuments : LoadLines(d.s, d.lines)

SpecParse == Init /\ [][NextParse]_vars

(***************************************************************************)
(* What a document says, read off its lines.                               *)
(***************************************************************************)
\* a line that is empty or made of spaces, tabs and carriage returns
IsBlankLine(line) == \A i \in 1..Len(line) : line[i] \in {" ", "\t", "\r"}

\* the lines that are not blank
NonBlankLines(lines) == SelectSeq(lines, LAMBDA line : ~IsBlankLine(line))

\* the document last handed to the constructor, without its blank lines
Document == NonBlankLines(last.lines)

\* the rows and the cols a well-formed header declares
DeclaredRows == CHOOSE n \in HeaderArgs : RowsLine(n) = Document[1]

DeclaredCols == CHOOSE n \in HeaderArgs : ColsLine(n) = Document[2]

\* the entries of a document of well-formed entry lines, in line order
DocumentEntries ==
    [i \in 1..(Len(Document) - 2) |-> CHOOSE e \in EntryArgs : LineOf(e) = Document[i + 2]]

\* the constructor has been called on a document with a well-formed header and
\* well-formed entry lines
LoadedGoodDoc == last.op = "load" /\ Document \in GoodDocs

\* the largest of a non-empty set of integers
Largest(S) == CHOOSE n \in S : \A k \in S : k <= n

(***************************************************************************)
(* C12: with maxRow and maxCol the largest row and column among the entry  *)
(* lines, zero-valued ones included, loading gives exactly                 *)
(* (maxRow+1) x (maxCol+1) when maxRow >= declared rows or maxCol >=       *)
(* declared cols, and exactly the declared rows x cols otherwise; no       *)
(* entry is rejected for exceeding the declared dimensions.                *)
(***************************************************************************)
C12_DimensionReconciliation ==
    LoadedGoodDoc =>
        LET entries == DocumentEntries
            maxRow == Largest({entries[i].row : i \in 1..Len(entries)})
            maxCol == Largest({entries[i].col : i \in 1..Len(entries)})
            grows == maxRow >= DeclaredRows \/ maxCol >= DeclaredCols
        IN  /\ (\A i \in 1..Len(entries) : entries[i].row >= 0 /\ entries[i].col >= 0)
                   => last.err = "none"
            /\ last.err = "none" =>
                   /\ Obj(last.a).rows = IF grows THEN maxRow + 1 ELSE DeclaredRows
                   /\ Obj(last.a).cols = IF grows THEN maxCol + 1 ELSE DeclaredCols

\* a zero-valued line beyond the declared rows has grown the matrix, and an
\* entry beyond the declared dimensions is stored
C12_Witness ==
    /\ LoadedGoodDoc
    /\ last.err = "none"
    /\ DeclaredRows = 2
    /\ Obj(last.a).rows = 4
    /\ \E i \in 1..Len(DocumentEntries) :
           DocumentEntries[i] = [row |-> 3, col |-> 0, value |-> 0]
    /\ At(Obj(last.a), 0, 2) = 4

(***************************************************************************)
(* C13: for every document that loads, the final rows is at least the      *)
(* declared rows and the final cols at least the declared cols; rows=2,    *)
(* cols=2 with the single entry (5, 0, 7) loads as 6 x 2 with              *)
(* getElement(5, 0) = 7.                                                   *)
(***************************************************************************)
C13_DeclaredLowerBound ==
    (LoadedGoodDoc /\ last.err = "none") =>
        /\ Obj(last.a).rows >= DeclaredRows
        /\ Obj(last.a).cols >= DeclaredCols
        /\ Document = <<RowsLine(2), ColsLine(2), EntryLine(5, 0, 7)>> =>
               /\ Obj(last.a).rows = 6
               /\ Obj(last.a).cols = 2
               /\ getElement(Obj(last.a), 5, 0) = [err |-> "none", val |-> 7]

(***************************************************************************)
(* C14: for every document with a well-formed header and well-formed entry *)
(* lines, negative rows and columns included, every setElement of the      *)
(* second pass is in bounds: loading never raises the out-of-bounds error. *)
(***************************************************************************)
C14_LoadInBounds ==
    LoadedGoodDoc => last.err # "OutOfBounds"

\* an optional leading "-", then one or more decimal digits
IsIntegerToken(tok) ==
    LET digits == IF tok # <<>> /\ tok[1] = "-" THEN Tail(tok) ELSE tok
    IN  /\ digits # <<>>
        /\ \A i \in 1..Len(digits) :
               digits[i] \in {"0", "1", "2", "3", "4", "5", "6", "7", "8", "9"}

\* entry lines that are not three integers in parentheses
NotEntryLines ==
    MalformedLines \cup {TokenLine(tok) : tok \in {t \in Tokens : ~IsIntegerToken(t)}}

\* a document the format rejects: fewer than 3 non-blank lines, a first or
\* second line that is not rows=<positive integer> / cols=<positive integer>, or
\* an entry line that is not three integers in parentheses
RejectedDocument ==
    \/ Len(Document) < 3
    \/ Document[1] \in BadRowsLines
    \/ Document[2] \in BadColsLines
    \/ \E i \in 3..Len(Document) : Document[i] \in NotEntryLines

(***************************************************************************)
(* C15: a document with fewer than 3 non-blank lines, a first or second    *)
(* line not of the form rows=<integer> / cols=<integer>, a declared        *)
(* dimension <= 0 or any malformed entry line makes the constructor raise  *)
(* the one error "Input file has wrong format" and give no matrix, also    *)
(* when an entry line before the malformed one is well-formed and          *)
(* whatever the entry lines after a rejected header.                       *)
(***************************************************************************)
C15_UniformFormatFailure ==
    (last.op = "load" /\ RejectedDocument) =>
        /\ last.err = "FormatError"
        /\ ref[last.a] = 0

(***************************************************************************)
(* C16: every matrix obtained from the constructor, by path or by          *)
(* dimensions, has rows >= 1 and cols >= 1.                                *)
(***************************************************************************)
C16_PositiveDimensions ==
    \A r \in Live : heap[r].rows >= 1 /\ heap[r].cols >= 1

\* matrix1 has been loaded and this step loads matrix2
SecondLoad ==
    /\ last.op = "load" /\ last.a = "matrix1"
    /\ last'.op = "load" /\ last'.a = "matrix2"

(***************************************************************************)
(* C17: a document that loads, loaded again with its entry lines (the      *)
(* lines after the two header lines) in any other order, loads to a matrix *)
(* with the same rows, cols and non-zero entries, also when it lists one   *)
(* coordinate more than once.                                              *)
(***************************************************************************)
C17_EntryOrderInsignificant ==
    [][ (SecondLoad /\ last.err = "none" /\ last'.lines \in Reorders(last.lines)) =>
            /\ last'.err = "none"
            /\ SameMatrix(heap'[ref'["matrix2"]], Obj("matrix1")) ]_vars

(***************************************************************************)
(* C18: two documents that differ only in blank lines (empty lines and     *)
(* lines made of spaces, tabs or carriage returns, at any position) either *)
(* both fail to load, with the same error, or both load, to matrices with  *)
(* the same rows, cols and entries.                                        *)
(***************************************************************************)
C18_BlankLinesIgnored ==
    [][ (SecondLoad /\ NonBlankLines(last'.lines) = NonBlankLines(last.lines)) =>
            /\ last'.err = last.err
            /\ last.err = "none" =>
                   SameMatrix(heap'[ref'["matrix2"]], Obj("matrix1")) ]_vars

\* a document with a line of tab, carriage return and space between rows= and
\* cols= has loaded to the matrix, with an entry, that it loads to without it
C18_Witness ==
    /\ last.op = "load" /\ last.a = "matrix2" /\ last.err = "none"
    /\ Len(last.lines) = 4
    /\ last.lines[2] = <<"\t", "\r", " ">>
    /\ ref["matrix1"] # 0
    /\ Obj("matrix2").elementCount = 1
    /\ SameMatrix(Obj("matrix2"), Obj("matrix1"))

\* the document rows=2, cols=2 and one entry line whose value is the token
LoadedToken(tok) ==
    /\ last.op = "load"
    /\ last.lines = <<RowsLine(2), ColsLine(2), TokenLine(tok)>>

(***************************************************************************)
(* C19: _parseInt returns a number exactly for the tokens made of an       *)
(* optional leading "-" and one or more decimal digits, and NaN for every  *)
(* other token (the empty token, a lone "-", a leading "+", a second "-",  *)
(* a letter, inner whitespace); a document with such a token as a value    *)
(* fails with the format error, and one with an integer token loads.       *)
(***************************************************************************)
C19_IntegerTokenGrammar ==
    \A tok \in Tokens :
        LoadedToken(tok) =>
            /\ _parseInt(tok).nan <=> ~IsIntegerToken(tok)
            /\ last.err = "FormatError" <=> ~IsIntegerToken(tok)

\* the value of the last of the entries for (row, col) whose value is not 0, and
\* 0 when there is none
LastNonZero(entries, row, col) ==
    LET S == {i \in 1..Len(entries) :
                  /\ entries[i].row = row
                  /\ entries[i].col = col
                  /\ entries[i].value # 0}
    IN  IF S = {} THEN 0 ELSE entries[Largest(S)].value

(***************************************************************************)
(* C20: after a document has loaded, the value at each coordinate is the   *)
(* value of the last entry line for that coordinate whose value is not 0,  *)
(* and 0 when there is none, so a later zero-valued line does not clear an *)
(* earlier value; elementCount counts each such coordinate once, and each  *)
(* is stored under one key.                                                *)
(***************************************************************************)
C20_DuplicateCoordinates ==
    (LoadedGoodDoc /\ last.err = "none") =>
        LET m == Obj(last.a)
            stored == {c \in Cells(m.rows, m.cols) :
                           LastNonZero(DocumentEntries, c[1], c[2]) # 0}
        IN  /\ \A i \in 1..Len(DocumentEntries) :
                   At(m, DocumentEntries[i].row, DocumentEntries[i].col)
                       = LastNonZero(DocumentEntries, DocumentEntries[i].row,
                                     DocumentEntries[i].col)
            /\ \A c \in Cells(m.rows, m.cols) :
                   At(m, c[1], c[2]) = LastNonZero(DocumentEntries, c[1], c[2])
            /\ m.elementCount = Cardinality(stored)
            /\ Len(m.elements) = Cardinality(stored)

\* (0, 0, 2) followed by (0, 0, 0) has loaded: the value at (0, 0) is 2 and is
\* counted once
C20_Witness ==
    /\ LoadedGoodDoc
    /\ last.err = "none"
    /\ Len(DocumentEntries) = 2
    /\ DocumentEntries[1] = [row |-> 0, col |-> 0, value |-> 2]
    /\ DocumentEntries[2] = [row |-> 0, col |-> 0, value |-> 0]
    /\ At(Obj(last.a), 0, 0) = 2
    /\ Obj(last.a).elementCount = 1

(***************************************************************************)
(* The command line of index.js: main asks for two paths and an operation  *)
(* through CustomReadLine.question, whose listener reads the chunks stdin  *)
(* delivers.  A continuation of main runs to its next await before the     *)
(* next data event is dispatched.                                          *)
(***************************************************************************)
\* the chunks a data event carries: one line, several lines, part of a line
Chunks ==
    { <<"a", "\n">>, <<"b", "\n">>, <<"c", "\n">>, <<"z", "\n">>,
      <<"1", "\n">>, <<" ", "2", "\n">>, <<"3", "\n">>, <<"9", "\n">>,
      <<"a">>, <<"\n">>,
      <<"a", "\n", "b", "\n">>,
      <<"a", "\n", "a", "\n", "1", "\n">>,
      <<"b", "\n", "9", "\n", "3", "\n">> }

\* the files the paths name: fileExists(path) is path \in DOMAIN Disk
Disk ==
    [path \in {<<"a">>, <<"b">>, <<"c">>} |->
        IF path = <<"a">>
        THEN FileOf(<<RowsLine(2), ColsLine(2), EntryLine(0, 0, 1), EntryLine(1, 1, 4)>>)
        ELSE IF path = <<"b">>
        THEN FileOf(<<RowsLine(2), ColsLine(1), EntryLine(0, 0, 1), EntryLine(1, 0, -1)>>)
        ELSE FileOf(<<RowsLine(2)>>)]

fileExists(filePath) == filePath \in DOMAIN Disk

\* this.buffer.includes('\n')
IncludesNewline(str) == IndexOf(str, <<"\n">>, 0) # -1

\* this.buffer.split('\n')[0]
FirstLine(str) ==
    IF IncludesNewline(str) THEN Substring(str, 0, IndexOf(str, <<"\n">>, 0)) ELSE str

\* the lines of a text that are ended by a newline, in order
RECURSIVE CompleteLines(_)
CompleteLines(str) ==
    IF ~IncludesNewline(str) THEN <<>>
    ELSE <<FirstLine(str)>>
         \o CompleteLines(Substring(str, Len(FirstLine(str)) + 1, Len(str)))

\* main is at its first await
InitCli ==
    /\ heap = [r \in Refs |-> Free]
    /\ ref = [s \in Slots |-> 0]
    /\ file = NoFile
    /\ last = NoCall
    /\ ncalls = 0
    /\ cli = [NoCli EXCEPT !.pc = "ask", !.prompt = 1]

\* rl.question(question): the prompt is written and the listener onData installed
Question ==
    /\ cli.pc = "ask"
    /\ cli' = [cli EXCEPT !.pc = "wait"]
    /\ UNCHANGED <<heap, ref, file, last, ncalls>>

\* the answer question() resolved with, trimmed by promptUser
Answer(c) == _trim(c.answers[Len(c.answers)])

\* main leaves the try block: catch, if an error was thrown, then rl.close()
Closed(c) == [c EXCEPT !.pc = "closed"]

\* main after its first await: the path of the first matrix file
Matrix1PathAnswered(c) ==
    /\ cli' = IF fileExists(Answer(c)) THEN [c EXCEPT !.pc = "ask", !.prompt = 2]
              ELSE Closed(c)
    /\ UNCHANGED <<heap, ref, file, last, ncalls>>

\* main after its second await: the path of the second matrix file, then the
\* two matrices are loaded
Matrix2PathAnswered(c) ==
    /\ IF ~fileExists(Answer(c))
       THEN /\ cli' = Closed(c)
            /\ UNCHANGED <<heap, ref, last>>
       ELSE \E r1 \in {loadFromFile(Disk[_trim(c.answers[1])])},
               r2 \in {loadFromFile(Disk[Answer(c)])} :
                \E h1 \in {[heap EXCEPT ![Alloc(heap)] = r1.m]},
                   loaded \in {r1.err = "none" /\ r2.err = "none"} :
                    /\ heap' = IF loaded THEN [h1 EXCEPT ![Alloc(h1)] = r2.m] ELSE heap
                    /\ ref' = IF loaded
                              THEN [ref EXCEPT !["matrix1"] = Alloc(heap),
                                               !["matrix2"] = Alloc(h1)]
                              ELSE ref
                    /\ last' = [NoCall EXCEPT
                                   !.op = "load",
                                   !.a = IF r1.err = "none" THEN "matrix2" ELSE "matrix1",
                                   !.data = IF r1.err = "none" THEN Disk[Answer(c)]
                                            ELSE Disk[_trim(c.answers[1])],
                                   !.err = IF r1.err = "none" THEN r2.err ELSE r1.err]
                    /\ cli' = IF loaded THEN [c EXCEPT !.pc = "ask", !.prompt = 3]
                              ELSE Closed(c)
    /\ UNCHANGED <<file, ncalls>>

\* validateMatricesForAddition, ...Subtraction, ...Multiplication
Validated(choice) ==
    IF choice = <<"3">> THEN Obj("matrix1").cols = Obj("matrix2").rows
    ELSE Obj("matrix1").rows = Obj("matrix2").rows /\ Obj("matrix1").cols = Obj("matrix2").cols

\* main after the await of promptOperationChoice: the prompt is repeated until the
\* choice is 1, 2 or 3; then the operation is performed and the result saved
ChoiceAnswered(c) ==
    /\ IF Answer(c) \notin {<<"1">>, <<"2">>, <<"3">>}
       THEN /\ cli' = [c EXCEPT !.pc = "ask"]
            /\ UNCHANGED <<heap, ref, file, last>>
       ELSE IF ~Validated(Answer(c))
       THEN /\ cli' = Closed(c)
            /\ UNCHANGED <<heap, ref, file, last>>
       ELSE \E op \in {IF Answer(c) = <<"1">> THEN "add"
                        ELSE IF Answer(c) = <<"2">> THEN "subtract" ELSE "multiply"} :
            \E r \in {IF op = "add" THEN add(heap, ref["matrix1"], ref["matrix2"])
                       ELSE IF op = "subtract"
                       THEN subtract(heap, ref["matrix1"], ref["matrix2"])
                       ELSE multiply(heap, ref["matrix1"], ref["matrix2"])} :
                /\ heap' = IF r.err = "none" THEN r.heap ELSE heap
                /\ ref' = IF r.err = "none" THEN [ref EXCEPT !["result"] = r.ret] ELSE ref
                /\ file' = IF r.err = "none"
                           THEN [exists |-> TRUE, text |-> toString(r.heap[r.ret]),
                                 of |-> "result"]
                           ELSE file
                /\ last' = [NoCall EXCEPT !.op = op, !.a = "matrix1", !.b = "matrix2",
                                          !.err = r.err]
                /\ cli' = Closed(c)
    /\ UNCHANGED ncalls

\* a data event carrying data while onData listens; when the buffer holds a line
\* the promise is resolved and main runs on, up to its next call of question() or
\* to its end, before any other event is handled
OnData(data) ==
    /\ cli.pc = "wait"
    /\ cli.events < MaxChunks
    /\ \E buffer \in {cli.buffer \o data} :
           IF ~IncludesNewline(buffer)
           THEN /\ cli' = [cli EXCEPT !.buffer = buffer, !.events = @ + 1,
                                      !.received = @ \o data]
                /\ UNCHANGED <<heap, ref, file, last, ncalls>>
           ELSE \E c \in {[cli EXCEPT !.buffer = Substring(buffer, Len(FirstLine(buffer)) + 1,
                                                           Len(buffer)),
                                      !.answers = Append(@, FirstLine(buffer)),
                                      !.events = @ + 1,
                                      !.received = @ \o data]} :
                    IF c.prompt = 1 THEN Matrix1PathAnswered(c)
                    ELSE IF c.prompt = 2 THEN Matrix2PathAnswered(c)
                    ELSE ChoiceAnswered(c)

\* a data event after rl.close() removed the listeners: nobody reads the chunk
DataUnheard ==
    /\ cli.pc = "closed"
    /\ cli.events < MaxChunks
    /\ cli' = [cli EXCEPT !.events = @ + 1]
    /\ UNCHANGED <<heap, ref, file, last, ncalls>>

NextCli ==
    \/ Question
    \/ \E data \in Chunks : OnData(data)
    \/ DataUnheard

\* main, once resumed, runs on to its call of question(); stdin may deliver
\* another chunk or none
SpecCli == InitCli /\ [][NextCli]_vars /\ WF_vars(Question)

\* question() is pending while a whole line is in the buffer
LineBuffered == cli.pc = "wait" /\ IncludesNewline(cli.buffer)

\* stdin has delivered the answers to the three prompts in one chunk
OneChunk ==
    /\ cli.events = 1
    /\ cli.received = <<"a", "\n", "a", "\n", "1", "\n">>

(***************************************************************************)
(* C21: the answers question() has resolved with are the first lines       *)
(* received, in the order received; a question() that is pending while a   *)
(* whole line is in the buffer eventually resolves, also when no data      *)
(* event follows; and once stdin has delivered the answers to all the      *)
(* prompts in one chunk, main eventually reaches its finally block.        *)
(***************************************************************************)
C21_PromptLiveness ==
    /\ [](cli.pc # "none" =>
              /\ Len(cli.answers) <= Len(CompleteLines(cli.received))
              /\ cli.answers = SubSeq(CompleteLines(cli.received), 1, Len(cli.answers)))
    /\ LineBuffered ~> cli.pc # "wait"
    /\ OneChunk ~> cli.pc = "closed"

=============================================================================
